---- MODULE Spec2Model ----
(***************************************************************************)
(* ado-server.py: a local HTTP server that serves static pages and proxies *)
(* three routes (avatar fetch, identity resolve, identity search) to Azure  *)
(* DevOps, adding the caller's PAT as HTTP Basic authentication.           *)
(*                                                                         *)
(* Strings are TLA+ strings; Len, \o and SubSeq work on them character by  *)
(* character, so prefix tests, substring tests, percent-encoding and       *)
(* base64 are computed, not assumed.  Texts are printable ASCII (one byte  *)
(* per character) plus the one character NonLatin1, which stands for any   *)
(* code point above U+00FF.                                                *)
(***************************************************************************)
EXTENDS Integers, Sequences, FiniteSets, TLC

(***************************************************************************)
(* Python str / bytes primitives used by the handlers.                     *)
(***************************************************************************)
Char(s, i) == SubSeq(s, i, i)

\* str.startswith(p)
StartsWith(s, p) == Len(s) >= Len(p) /\ SubSeq(s, 1, Len(p)) = p

\* "sub in s"
Contains(s, sub) ==
    \E i \in 1..(Len(s) - Len(sub) + 1) : SubSeq(s, i, i + Len(sub) - 1) = sub

\* str.find(sub) + 1: the 1-based index of the first occurrence, 0 when absent
Find(s, sub) ==
    IF Contains(s, sub)
    THEN CHOOSE i \in 1..(Len(s) - Len(sub) + 1) :
            /\ SubSeq(s, i, i + Len(sub) - 1) = sub
            /\ \A j \in 1..(i - 1) : SubSeq(s, j, j + Len(sub) - 1) # sub
    ELSE 0

\* str.rstrip(c) for a one-character c: every trailing c is removed
RECURSIVE Rstrip(_, _)
Rstrip(s, c) ==
    IF Len(s) > 0 /\ Char(s, Len(s)) = c
    THEN Rstrip(SubSeq(s, 1, Len(s) - 1), c)
    ELSE s

\* str.split(sep) for a one-character sep
RECURSIVE Split(_, _)
Split(s, sep) ==
    LET i == Find(s, sep)
    IN  IF i = 0 THEN <<s>>
        ELSE <<SubSeq(s, 1, i - 1)>> \o Split(SubSeq(s, i + 1, Len(s)), sep)

\* str.replace(a, b) for one-character a
RECURSIVE Replace(_, _, _)
Replace(s, a, b) ==
    IF s = "" THEN ""
    ELSE (IF Char(s, 1) = a THEN b ELSE Char(s, 1)) \o Replace(Tail(s), a, b)

\* ASCII 32..95 and 97..126 (the grave accent, 96, is not used by any input)
AsciiLow == " !\"#$%&'()*+,-./0123456789:;<=>?@ABCDEFGHIJKLMNOPQRSTUVWXYZ[\\]^_"
AsciiHigh == "abcdefghijklmnopqrstuvwxyz{|}~"

\* A character outside Latin-1 (U+20AC), as an upstream error body can hold
NonLatin1 == "€"

\* ord(c) of a printable ASCII character
Ord(c) ==
    IF Contains(AsciiLow, c) THEN 31 + Find(AsciiLow, c) ELSE 96 + Find(AsciiHigh, c)

\* chr(n) for 32 <= n <= 126, n # 96
Chr(n) == IF n < 96 THEN Char(AsciiLow, n - 31) ELSE Char(AsciiHigh, n - 96)

HexDigits == "0123456789ABCDEF"

\* int(c, 16) of one hex digit, -1 when c is none
HexVal(c) ==
    IF Contains(HexDigits, c) THEN Find(HexDigits, c) - 1
    ELSE IF Contains("abcdef", c) THEN 9 + Find("abcdef", c)
    ELSE -1

\* urllib.parse.unquote, on %XX escapes of printable ASCII
RECURSIVE Unquote(_)
Unquote(s) ==
    IF s = "" THEN ""
    ELSE IF /\ Char(s, 1) = "%"
            /\ Len(s) >= 3
            /\ HexVal(Char(s, 2)) >= 0
            /\ HexVal(Char(s, 3)) >= 0
         THEN Chr(16 * HexVal(Char(s, 2)) + HexVal(Char(s, 3)))
                  \o Unquote(SubSeq(s, 4, Len(s)))
         ELSE Char(s, 1) \o Unquote(Tail(s))

\* The characters urllib.parse.quote never encodes
AlwaysSafe == "ABCDEFGHIJKLMNOPQRSTUVWXYZabcdefghijklmnopqrstuvwxyz0123456789_.-~"

\* urllib.parse.quote(s, safe='')
RECURSIVE Quote(_)
Quote(s) ==
    IF s = "" THEN ""
    ELSE LET c == Char(s, 1)
         IN  (IF Contains(AlwaysSafe, c) THEN c
              ELSE "%" \o Char(HexDigits, (Ord(c) \div 16) + 1)
                       \o Char(HexDigits, (Ord(c) % 16) + 1))
             \o Quote(Tail(s))

B64Alphabet == "ABCDEFGHIJKLMNOPQRSTUVWXYZabcdefghijklmnopqrstuvwxyz0123456789+/"

\* base64.b64encode(s.encode()).decode()
RECURSIVE b64encode(_)
b64encode(s) ==
    IF s = "" THEN ""
    ELSE LET n  == Len(s)
             b1 == Ord(Char(s, 1))
             b2 == IF n >= 2 THEN Ord(Char(s, 2)) ELSE 0
             b3 == IF n >= 3 THEN Ord(Char(s, 3)) ELSE 0
             v  == b1 * 65536 + b2 * 256 + b3
         IN  Char(B64Alphabet, (v \div 262144) + 1)
             \o Char(B64Alphabet, ((v \div 4096) % 64) + 1)
             \o (IF n >= 2 THEN Char(B64Alphabet, ((v \div 64) % 64) + 1) ELSE "=")
             \o (IF n >= 3 THEN Char(B64Alphabet, (v % 64) + 1) ELSE "=")
             \o (IF n > 3 THEN b64encode(SubSeq(s, 4, n)) ELSE "")

\* int(s): <<n>> for an optional sign followed by decimal digits, <<>> for
\* anything else (Python raises ValueError)
RECURSIVE DigitsValue(_, _)
DigitsValue(s, acc) ==
    IF s = "" THEN acc
    ELSE DigitsValue(Tail(s), 10 * acc + (Find("0123456789", Char(s, 1)) - 1))

IsDigits(s) == Len(s) > 0 /\ \A i \in 1..Len(s) : Contains("0123456789", Char(s, i))

ParseInt(s) ==
    IF IsDigits(s) THEN <<DigitsValue(s, 0)>>
    ELSE IF Len(s) > 1 /\ Char(s, 1) = "-" /\ IsDigits(Tail(s))
         THEN <<0 - DigitsValue(Tail(s), 0)>>
    ELSE IF Len(s) > 1 /\ Char(s, 1) = "+" /\ IsDigits(Tail(s))
         THEN <<DigitsValue(Tail(s), 0)>>
    ELSE <<>>

\* text.encode('latin-1', 'strict') succeeds
Latin1Encodable(s) == ~Contains(s, NonLatin1)

\* html.escape(s, quote=False)
RECURSIVE HtmlEscape(_)
HtmlEscape(s) ==
    IF s = "" THEN ""
    ELSE LET c == Char(s, 1)
         IN  (IF c = "&" THEN "&amp;"
              ELSE IF c = "<" THEN "&lt;"
              ELSE IF c = ">" THEN "&gt;"
              ELSE c) \o HtmlEscape(Tail(s))

(***************************************************************************)
(* Query-string parsing: urllib.parse.urlparse(path).query and parse_qs.   *)
(***************************************************************************)
\* urlparse(path).query for a path that starts with one "/": the text after
\* the first "?", up to the first "#"
UrlQuery(path) ==
    LET f == Find(path, "#")
        p == IF f = 0 THEN path ELSE SubSeq(path, 1, f - 1)
        q == Find(p, "?")
    IN  IF q = 0 THEN "" ELSE SubSeq(p, q + 1, Len(p))

\* One "name=value" field of parse_qsl: <<>> when it has no "=" or a blank
\* value (keep_blank_values is off), else <<name, value>> unquoted
QsField(f) ==
    LET e == Find(f, "=")
    IN  IF e = 0 \/ e = Len(f) THEN <<>>
        ELSE << <<Unquote(Replace(SubSeq(f, 1, e - 1), "+", " ")),
                  Unquote(Replace(SubSeq(f, e + 1, Len(f)), "+", " "))>> >>

RECURSIVE QsFields(_)
QsFields(fs) == IF fs = <<>> THEN <<>> ELSE QsField(Head(fs)) \o QsFields(Tail(fs))

\* parse_qsl(qs): the (name, value) pairs in order
parse_qsl(qs) == QsFields(Split(qs, "&"))

\* parse_qs(qs).get(key, dflt): the list of key's values, dflt when there is none
ParamsGet(pairs, key, dflt) ==
    LET vals == SelectSeq(pairs, LAMBDA p : p[1] = key)
    IN  IF vals = <<>> THEN dflt ELSE [i \in 1..Len(vals) |-> vals[i][2]]

\* self.headers.get(name, dflt) over the request's header list; dflt and the
\* result are lists of at most one value, <<>> being None
HeaderGet(headers, name, dflt) ==
    LET vals == SelectSeq(headers, LAMBDA p : p[1] = name)
    IN  IF vals = <<>> THEN dflt ELSE <<vals[1][2]>>

\* Python truth of an optional string: None and '' are false
Truthy(opt) == opt # <<>> /\ opt[1] # ""


(***************************************************************************)
(* The handler object.  A record h stands for self during one request:     *)
(*   requestline, command, path, headers, rfile   the parsed request       *)
(*   buf       self._headers_buffer                                        *)
(*   emitted   every line ever put into the buffer, in order               *)
(*   wire      the chunks wfile.write delivered to the client socket       *)
(*   conn      the client connection: "open", "head" (one more write       *)
(*             succeeds, then the peer is gone) or "gone"                  *)
(*   log       the lines log_message wrote to stdout                       *)
(*   calls     the requests handed to urllib.request.urlopen               *)
(*   exc, exctext   the exception being propagated ("" for none), str(e)   *)
(***************************************************************************)
StatusLine(code, message) == [k |-> "status", code |-> code, name |-> "", value |-> message]
HeaderLine(keyword, value) == [k |-> "header", code |-> 0, name |-> keyword, value |-> value]
EndLine == [k |-> "end", code |-> 0, name |-> "", value |-> ""]
HeadChunk(lines) == [k |-> "head", lines |-> lines, data |-> ""]
BodyChunk(data) == [k |-> "body", lines |-> <<>>, data |-> data]

Raise(h, e, text) == [h EXCEPT !.exc = e, !.exctext = text]

\* Entering an except clause: the exception is no longer propagating
Caught(h) == [h EXCEPT !.exc = "", !.exctext = ""]

\* ADOHandler.log_message: one line on stdout, "<client> - [<time>] <text>"
log_message(h, text) ==
    IF h.exc # "" THEN h
    ELSE [h EXCEPT !.log = Append(@, "client - [time] " \o text)]

\* self.wfile.write(chunk) on the unbuffered socket writer: it raises once the
\* peer has gone, and keeps raising afterwards
wfile_write(h, chunk) ==
    IF h.exc # "" THEN h
    ELSE IF h.conn = "gone"
         THEN Raise(h, "BrokenPipeError", "[Errno 32] Broken pipe")
         ELSE [h EXCEPT !.wire = Append(@, chunk),
                        !.conn = IF @ = "head" THEN "gone" ELSE @]

\* BaseHTTPRequestHandler.responses[code]: <<shortmsg, longmsg>>
Responses(code) ==
    CASE code = 200 -> <<"OK", "Request fulfilled, document follows">>
      [] code = 301 -> <<"Moved Permanently", "Object moved permanently -- see URI list">>
      [] code = 304 -> <<"Not Modified", "Document has not changed since given time">>
      [] code = 400 -> <<"Bad Request", "Bad request syntax or unsupported method">>
      [] code = 401 -> <<"Unauthorized", "No permission -- see authorization schemes">>
      [] code = 404 -> <<"Not Found", "Nothing matches the given URI">>
      [] code = 500 -> <<"Internal Server Error", "Server got itself in trouble">>
      [] code = 502 -> <<"Bad Gateway", "Invalid responses from another server/proxy">>
      [] OTHER -> <<"???", "???">>

\* send_response_only: the status line goes into the header buffer, encoded
\* as Latin-1 (strict)
send_response_only(h, code, message) ==
    IF h.exc # "" THEN h
    ELSE IF ~Latin1Encodable(message)
         THEN Raise(h, "UnicodeEncodeError", "'latin-1' codec can't encode character")
         ELSE [h EXCEPT !.buf = Append(@, StatusLine(code, message)),
                        !.emitted = Append(@, StatusLine(code, message))]

\* send_header: one header line into the header buffer
send_header(h, keyword, value) ==
    IF h.exc # "" THEN h
    ELSE IF ~Latin1Encodable(value)
         THEN Raise(h, "UnicodeEncodeError", "'latin-1' codec can't encode character")
         ELSE [h EXCEPT !.buf = Append(@, HeaderLine(keyword, value)),
                        !.emitted = Append(@, HeaderLine(keyword, value))]

\* log_request as it would be if it also logged the credential header
log_request_with_credential(h, code) ==
    log_message(h, "\"" \o h.requestline \o "\" " \o ToString(code) \o " - "
                   \o HeaderGet(h.headers, "X-ADO-PAT", <<"">>)[1])

\* log_request(code), called by send_response
log_request(h, code) ==
    log_message(h, "\"" \o h.requestline \o "\" " \o ToString(code) \o " -")

\* send_response(code, message): log, status line, Server and Date headers
send_response(h, code, message) ==
    LET h1 == log_request(h, code)
        h2 == send_response_only(h1, code, message)
        h3 == send_header(h2, "Server", "SimpleHTTP/0.6 Python/3.9.13")
    IN  send_header(h3, "Date", "time")

\* flush_headers: the buffer is written in one piece and emptied; when the
\* write raises, the assignment that empties it is not reached
flush_headers(h) ==
    LET w == wfile_write(h, HeadChunk(h.buf))
    IN  IF w.exc # "" THEN w ELSE [w EXCEPT !.buf = <<>>]

\* BaseHTTPRequestHandler.end_headers: the blank line, then the flush
base_end_headers(h) ==
    IF h.exc # "" THEN h
    ELSE flush_headers([h EXCEPT !.buf = Append(@, EndLine),
                                 !.emitted = Append(@, EndLine)])

\* end_headers without the override: the base method alone
end_headers_not_overridden(h) == base_end_headers(h)

\* ADOHandler.end_headers: the two no-cache headers, then the base method
end_headers(h) ==
    LET h1 == send_header(h, "Cache-Control", "no-store, no-cache, must-revalidate")
        h2 == send_header(h1, "Expires", "0")
    IN  base_end_headers(h2)

\* error_message_format % {code, message, explain}; the fixed HTML around
\* the three fields is shortened
ErrorPage(code, message, explain) ==
    "<html><body><h1>Error response</h1><p>Error code: " \o ToString(code)
    \o "</p><p>Message: " \o message
    \o ".</p><p>Error code explanation: " \o ToString(code) \o " - " \o explain
    \o ".</p></body></html>"

\* Whether send_error gives the response a body
ErrorHasBody(code) == code >= 200 /\ code \notin {204, 205, 304}

\* BaseHTTPRequestHandler.send_error(code, message)
send_error(h, code, message) ==
    LET explain == Responses(code)[2]
        h1 == log_message(h, "code " \o ToString(code) \o ", message " \o message)
        h2 == send_response(h1, code, message)
        h3 == send_header(h2, "Connection", "close")
        body == ErrorPage(code, HtmlEscape(message), HtmlEscape(explain))
        h4 == IF ErrorHasBody(code)
              THEN send_header(send_header(h3, "Content-Type", "text/html;charset=utf-8"),
                               "Content-Length", ToString(Len(body)))
              ELSE h3
        h5 == end_headers(h4)
    IN  IF ErrorHasBody(code) /\ h.command # "HEAD"
        THEN wfile_write(h5, BodyChunk(body))
        ELSE h5


(***************************************************************************)
(* The upstream call.  What urlopen does is the environment's choice, an   *)
(* outcome record:                                                         *)
(*   kind    "ok" (a 2xx reply), "http_error" (HTTPError), "url_error"     *)
(*           (URLError: the host was not reached) or "other" (any other    *)
(*           exception, e.g. the peer closing before it answers)           *)
(*   code, reason   the upstream status line, or the failure's text        *)
(*   ctype   the upstream Content-Type, <<>> when it sent none             *)
(*   body    the reply's body; with echo, followed by the Authorization    *)
(*           header the upstream received                                  *)
(*   readOK  whether reading that body succeeds                            *)
(***************************************************************************)
Outcome(kind, code, reason, ctype, body, readOK, echo) ==
    [kind |-> kind, code |-> code, reason |-> reason, ctype |-> ctype,
     body |-> body, readOK |-> readOK, echo |-> echo]

UpstreamOutcomes ==
    { Outcome("ok", 200, "OK", <<"image/jpeg">>, "JFIF-bytes", TRUE, FALSE),
      Outcome("ok", 200, "OK", <<>>, "{\"value\":[]}", TRUE, FALSE),
      Outcome("ok", 201, "Created", <<"text/plain">>, "you sent ", TRUE, TRUE),
      Outcome("ok", 200, "OK", <<"image/jpeg">>, "JFIF-bytes", FALSE, FALSE),
      Outcome("http_error", 404, "Not Found", <<>>, "{\"message\":\"no such identity\"}", TRUE, FALSE),
      Outcome("http_error", 401, "Unauthorized", <<>>, "rejected ", TRUE, TRUE),
      Outcome("http_error", 500, "Internal Server Error", <<>>, "co" \o NonLatin1 \o "t", TRUE, FALSE),
      Outcome("http_error", 503, "Service Unavailable", <<>>, "", FALSE, FALSE),
      Outcome("http_error", 304, "Not Modified", <<>>, "", TRUE, FALSE),
      Outcome("url_error", 0, "[Errno -2] Name or service not known", <<>>, "", TRUE, FALSE),
      Outcome("other", 0, "Remote end closed connection without response", <<>>, "", TRUE, FALSE) }

\* urllib.request.Request(url, data, method) with its added headers
UpstreamRequest(url, method, headers, data) ==
    [url |-> url, method |-> method, headers |-> headers, data |-> data]

\* f'Basic {base64.b64encode(f":{pat}".encode()).decode()}'
BasicAuth(pat) == "Basic " \o b64encode(":" \o pat)

\* urlopen wrapped in one retry after a failure
urlopen_with_retry(h, call, up) ==
    IF h.exc # "" THEN h
    ELSE LET h1 == [h EXCEPT !.calls = IF up.kind = "ok" THEN Append(@, call)
                                       ELSE Append(Append(@, call), call)]
         IN  CASE up.kind = "ok" -> h1
               [] up.kind = "http_error" ->
                    Raise(h1, "HTTPError", "HTTP Error " \o ToString(up.code) \o ": " \o up.reason)
               [] up.kind = "url_error" ->
                    Raise(h1, "URLError", "<urlopen error " \o up.reason \o ">")
               [] OTHER -> Raise(h1, "RemoteDisconnected", up.reason)

\* urllib.request.urlopen(req, timeout=10): one call, no retry
urlopen(h, call, up) ==
    IF h.exc # "" THEN h
    ELSE LET h1 == [h EXCEPT !.calls = Append(@, call)]
         IN  CASE up.kind = "ok" -> h1
               [] up.kind = "http_error" ->
                    Raise(h1, "HTTPError", "HTTP Error " \o ToString(up.code) \o ": " \o up.reason)
               [] up.kind = "url_error" ->
                    Raise(h1, "URLError", "<urlopen error " \o up.reason \o ">")
               [] OTHER -> Raise(h1, "RemoteDisconnected", up.reason)

\* The bytes the upstream's body holds for this call
ReplyBody(up, call) ==
    IF up.echo THEN up.body \o HeaderGet(call.headers, "Authorization", <<"">>)[1]
    ELSE up.body

\* response.read() / e.read(): a reply cut short raises
reply_read(h, up) ==
    IF h.exc # "" \/ up.readOK THEN h
    ELSE Raise(h, "IncompleteRead", "IncompleteRead(0 bytes read)")

\* The 200 relay inside the with block: status, Content-Type (the upstream's,
\* or the route's default), Content-Length, the route's extra headers, the
\* head's end, the body
Relay(h, up, call, defaultType, extra) ==
    LET data == ReplyBody(up, call)
        h1 == reply_read(h, up)
        h2 == send_response(h1, 200, "OK")
        h3 == send_header(h2, "Content-Type",
                          IF up.ctype = <<>> THEN defaultType ELSE up.ctype[1])
        h4 == send_header(h3, "Content-Length", ToString(Len(data)))
        h5 == IF extra = <<>> THEN h4 ELSE send_header(h4, extra[1], extra[2])
        h6 == end_headers(h5)
    IN  wfile_write(h6, BodyChunk(data))

\* The status send_error is called with for a failure of the try block
ErrorStatus(exc, up) ==
    IF exc = "HTTPError" THEN up.code
    ELSE IF exc = "URLError" THEN 502
    ELSE 500

\* The three except clauses of the avatar and identity-resolve handlers
ProxyExcept(h, up) ==
    IF h.exc = "" THEN h
    ELSE IF h.exc = "HTTPError"
         THEN send_error(Caught(h), ErrorStatus(h.exc, up),
                         "Azure DevOps returned: " \o up.reason)
    ELSE IF h.exc = "URLError"
         THEN send_error(Caught(h), ErrorStatus(h.exc, up),
                         "Failed to connect to Azure DevOps: " \o up.reason)
    ELSE send_error(Caught(h), ErrorStatus(h.exc, up), "Proxy error: " \o h.exctext)

\* The except clauses of the identity-search handler: the HTTPError clause
\* reads the upstream's error body first, inside the clause
SearchExcept(h, up, call) ==
    IF h.exc = "HTTPError"
    THEN LET r == reply_read(Caught(h), up)
         IN  send_error(r, ErrorStatus(h.exc, up),
                        "Azure DevOps returned: " \o up.reason \o " - " \o ReplyBody(up, call))
    ELSE ProxyExcept(h, up)

\* The validation with the check of the credential header left out
MissingRequired_without_pat(id, org, pat) == ~Truthy(id) \/ ~Truthy(org)

\* "not id or not org or not pat" (avatar and identity-resolve)
MissingRequired(id, org, pat) == ~Truthy(id) \/ ~Truthy(org) \/ ~Truthy(pat)

\* "not pat or not org" (identity-search)
MissingSearchHeaders(pat, org) == ~Truthy(pat) \/ ~Truthy(org)

\* lst[0] of a parse_qs value list, <<>> standing for [None][0]
First(lst) == IF lst = <<>> THEN <<>> ELSE <<lst[1]>>

\* ADOHandler.handle_avatar_proxy
handle_avatar_proxy(h, up) ==
    LET params == parse_qsl(UrlQuery(h.path))
        avatar_id == First(ParamsGet(params, "id", <<>>))
        org == First(ParamsGet(params, "org", <<>>))
        server_url == First(ParamsGet(params, "serverUrl", <<"https://dev.azure.com">>))
        pat == HeaderGet(h.headers, "X-ADO-PAT", <<"">>)
    IN  IF MissingRequired(avatar_id, org, pat)
        THEN send_error(h, 400, "Missing required parameters (id, org) or X-ADO-PAT header")
        ELSE LET ado_url == server_url[1] \o "/" \o org[1]
                                \o "/_api/_common/identityImage?id=" \o avatar_id[1]
                 call == UpstreamRequest(ado_url, "GET",
                             << <<"Authorization", BasicAuth(pat[1])>> >>, <<>>)
                 t == Relay(urlopen(h, call, up), up, call, "image/png",
                            <<"Cache-Control", "max-age=604800">>)
             IN  ProxyExcept(t, up)

\* The identity base with the trailing slash left in place
IdentityBase_unstripped(server_url, org) ==
    IF Contains(server_url, "dev.azure.com")
    THEN "https://vssps.dev.azure.com/" \o org
    ELSE server_url \o "/" \o org

\* The identity base of the identity-resolve route
IdentityBase(server_url, org) ==
    LET stripped == Rstrip(server_url, "/")
    IN  IF Contains(stripped, "dev.azure.com")
        THEN "https://vssps.dev.azure.com/" \o org
        ELSE stripped \o "/" \o org

\* ADOHandler.handle_identity_resolve_proxy
handle_identity_resolve_proxy(h, up) ==
    LET params == parse_qsl(UrlQuery(h.path))
        identity_id == First(ParamsGet(params, "id", <<>>))
        org == First(ParamsGet(params, "org", <<>>))
        server_url == First(ParamsGet(params, "serverUrl", <<"https://dev.azure.com">>))
        pat == HeaderGet(h.headers, "X-ADO-PAT", <<"">>)
    IN  IF MissingRequired(identity_id, org, pat)
        THEN send_error(h, 400, "Missing required parameters (id, org) or X-ADO-PAT header")
        ELSE LET ado_url == IdentityBase(server_url[1], org[1]) \o "/_apis/identities/"
                                \o Quote(identity_id[1]) \o "?api-version=6.0"
                 call == UpstreamRequest(ado_url, "GET",
                             << <<"Authorization", BasicAuth(pat[1])>> >>, <<>>)
                 t == Relay(urlopen(h, call, up), up, call, "application/json", <<>>)
             IN  ProxyExcept(t, up)

\* A read that takes whatever the client sent, whatever length it stated
rfile_read_everything(rfile, n) == rfile

\* self.rfile.read(n): n bytes of the request body (fewer when the client
\* sent fewer and closed), everything up to end of stream when n < 0
rfile_read(rfile, n) ==
    IF n < 0 \/ n > Len(rfile) THEN rfile ELSE SubSeq(rfile, 1, n)

\* ADOHandler.handle_identity_search_proxy
handle_identity_search_proxy(h, up) ==
    LET pat == HeaderGet(h.headers, "X-ADO-PAT", <<"">>)
        org == HeaderGet(h.headers, "X-ADO-Org", <<"">>)
        server_url == HeaderGet(h.headers, "X-ADO-Server", <<"https://dev.azure.com">>)
        content_length == ParseInt(HeaderGet(h.headers, "Content-Length", <<"0">>)[1])
    IN  IF MissingSearchHeaders(pat, org)
        THEN send_error(h, 400, "Missing required headers: X-ADO-PAT, X-ADO-Org")
        ELSE IF content_length = <<>>
        THEN Raise(h, "ValueError", "invalid literal for int() with base 10")
        ELSE LET post_body == rfile_read(h.rfile, content_length[1])
                 ado_url == Rstrip(server_url[1], "/") \o "/" \o org[1]
                                \o "/_apis/IdentityPicker/Identities?api-version=5.1-preview.1"
                 call == UpstreamRequest(ado_url, "POST",
                             << <<"Authorization", BasicAuth(pat[1])>>,
                                <<"Content-Type", "application/json">> >>,
                             <<post_body>>)
                 t == Relay(urlopen(h, call, up), up, call, "application/json", <<>>)
             IN  SearchExcept(t, up, call)

\* SimpleHTTPRequestHandler.do_GET: a file of the working directory, a
\* redirect to a directory's URL with the slash added, or 404
static_do_GET(h, fs) ==
    CASE fs = "file" ->
            LET page == "<html>ado tools</html>"
                h1 == send_response(h, 200, "OK")
                h2 == send_header(h1, "Content-type", "text/html")
                h3 == send_header(h2, "Content-Length", ToString(Len(page)))
                h4 == send_header(h3, "Last-Modified", "time")
            IN  wfile_write(end_headers(h4), BodyChunk(page))
      [] fs = "redirect" ->
            LET h1 == send_response(h, 301, "Moved Permanently")
                h2 == send_header(h1, "Location", h.path \o "/")
                h3 == send_header(h2, "Content-Length", "0")
            IN  end_headers(h3)
      [] OTHER -> send_error(h, 404, "File not found")

FsOutcomes == {"file", "redirect", "missing"}

\* The dispatch with the "?" dropped from the avatar prefix
RouteGET_loose_prefix(path) ==
    IF StartsWith(path, "/avatar") THEN "avatar"
    ELSE IF StartsWith(path, "/identity-resolve?") THEN "identity-resolve"
    ELSE "static"

\* ADOHandler.do_GET's choice of handler
RouteGET(path) ==
    IF StartsWith(path, "/avatar?") THEN "avatar"
    ELSE IF StartsWith(path, "/identity-resolve?") THEN "identity-resolve"
    ELSE "static"

\* ADOHandler.do_POST's choice of handler
RoutePOST(path) ==
    IF StartsWith(path, "/identity-search") THEN "identity-search" ELSE "not-found"


(***************************************************************************)
(* The requests a client sends.                                            *)
(***************************************************************************)
PATs == {"abc", "s3cret"}

\* A header list from optional values (<<>>: the header is not sent)
HeaderList(names, opts) ==
    LET present == SelectSeq([i \in 1..Len(names) |-> <<names[i], opts[i]>>],
                             LAMBDA p : p[2] # <<>>)
    IN  [i \in 1..Len(present) |-> <<present[i][1], present[i][2][1]>>]

\* The query fields joined with "&", the empty ones left out
RECURSIVE JoinFields(_)
JoinFields(fs) ==
    IF fs = <<>> THEN ""
    ELSE IF Head(fs) = "" THEN JoinFields(Tail(fs))
    ELSE IF JoinFields(Tail(fs)) = "" THEN Head(fs)
    ELSE Head(fs) \o "&" \o JoinFields(Tail(fs))

IdFields == {"", "id=", "id=7", "id=a%2Fb+c"}
OrgFields == {"", "org=", "org=contoso"}
ServerFields ==
    {"", "serverUrl=",
     "serverUrl=https://dev.azure.com/",
     "serverUrl=https://tfs.example.com/tfs",
     "serverUrl=https://tfs.example.com/tfs//",
     "serverUrl=http://dev.azure.com.example.net"}

Queries == {JoinFields(<<i, o, u>>) : i \in IdFields, o \in OrgFields, u \in ServerFields}

PatOptions == {<<>>, <<"">>} \cup {<<p>> : p \in PATs}

Request(command, path, headers, rfile) ==
    [command |-> command, path |-> path, headers |-> headers, rfile |-> rfile]

GetRequests ==
    {Request("GET", prefix \o q, HeaderList(<<"X-ADO-PAT">>, <<pat>>), "") :
        prefix \in {"/avatar?", "/identity-resolve?"}, q \in Queries, pat \in PatOptions}
    \cup
    {Request("GET", path, HeaderList(<<"X-ADO-PAT">>, <<pat>>), "") :
        path \in {"/", "/ado-pr-list.html", "/avatar", "/avatars?id=7&org=contoso",
                  "/identity-resolve", "/api/avatar?id=7&org=contoso"},
        pat \in {<<>>, <<"abc">>}}

SearchBody == "{\"query\":\"ann\"}"

ContentLengths == {<<>>, <<"0">>, <<"5">>, <<"15">>, <<"40">>, <<"-1">>, <<"abc">>}

PostRequests ==
    {Request("POST", path,
             HeaderList(<<"X-ADO-PAT", "X-ADO-Org", "X-ADO-Server", "Content-Length">>,
                        <<pat, org, server, cl>>),
             SearchBody) :
        path \in {"/identity-search", "/identity-search/x?y=1"},
        pat \in PatOptions,
        org \in {<<>>, <<"">>, <<"contoso">>},
        server \in {<<>>, <<"https://tfs.example.com/tfs//">>},
        cl \in ContentLengths}
    \cup
    {Request("POST", path,
             HeaderList(<<"X-ADO-PAT", "X-ADO-Org", "Content-Length">>,
                        <<pat, <<"contoso">>, <<"15">> >>),
             SearchBody) :
        path \in {"/", "/identity", "/avatar?id=7&org=contoso", "/Identity-Search"},
        pat \in {<<>>, <<"abc">>}}

ClientConns == {"open", "head", "gone"}

(***************************************************************************)
(* The server: one request at a time (socketserver.TCPServer).             *)
(***************************************************************************)
VARIABLES
    pc,        \* "idle", "received" (parsed, not yet dispatched) or "done"
    req,       \* the request being handled
    route,     \* the handler do_GET / do_POST chose
    outcome,   \* what the upstream did when it was called
    buf,       \* self._headers_buffer at the handler's end
    emitted,   \* the response lines the handler produced
    wire,      \* what reached the client socket
    log,       \* stdout
    calls,     \* the upstream calls made for this request
    raised     \* the exception that left the handler, "" for none

vars == <<pc, req, route, outcome, buf, emitted, wire, log, calls, raised>>

NoRequest == Request("", "", <<>>, "")
NoOutcome == Outcome("", 0, "", <<>>, "", TRUE, FALSE)

\* The handler object socketserver creates for an accepted request
NewHandler(r, conn) ==
    [requestline |-> r.command \o " " \o r.path \o " HTTP/1.1",
     command |-> r.command, path |-> r.path, headers |-> r.headers, rfile |-> r.rfile,
     buf |-> <<>>, emitted |-> <<>>, wire |-> <<>>, conn |-> conn,
     log |-> <<>>, calls |-> <<>>, exc |-> "", exctext |-> ""]

Init ==
    /\ pc = "idle"
    /\ req = NoRequest
    /\ route = ""
    /\ outcome = NoOutcome
    /\ buf = <<>>
    /\ emitted = <<>>
    /\ wire = <<>>
    /\ log = <<>>
    /\ calls = <<>>
    /\ raised = ""

\* handle_one_request has read and parsed a request
Receive ==
    /\ pc = "idle"
    /\ \E r \in GetRequests \cup PostRequests : req' = r
    /\ pc' = "received"
    /\ UNCHANGED <<route, outcome, buf, emitted, wire, log, calls, raised>>

\* The handler has returned (or raised): its effects
Finished(h, rt, up) ==
    /\ pc' = "done"
    /\ route' = rt
    /\ outcome' = IF h.calls = <<>> THEN NoOutcome ELSE up
    /\ buf' = h.buf
    /\ emitted' = h.emitted
    /\ wire' = h.wire
    /\ log' = h.log
    /\ calls' = h.calls
    /\ raised' = h.exc
    /\ UNCHANGED req

\* ADOHandler.do_GET
do_GET ==
    /\ pc = "received"
    /\ req.command = "GET"
    /\ \E conn \in ClientConns,
          up \in (IF RouteGET(req.path) = "static" THEN {NoOutcome} ELSE UpstreamOutcomes),
          fs \in (IF RouteGET(req.path) = "static" THEN FsOutcomes ELSE {"none"}) :
         LET h0 == NewHandler(req, conn)
             rt == RouteGET(req.path)
         IN  Finished(CASE rt = "avatar" -> handle_avatar_proxy(h0, up)
                        [] rt = "identity-resolve" -> handle_identity_resolve_proxy(h0, up)
                        [] OTHER -> static_do_GET(h0, fs),
                      rt, up)

\* ADOHandler.do_POST
do_POST ==
    /\ pc = "received"
    /\ req.command = "POST"
    /\ \E conn \in ClientConns,
          up \in (IF RoutePOST(req.path) = "identity-search"
                  THEN UpstreamOutcomes ELSE {NoOutcome}) :
         LET h0 == NewHandler(req, conn)
             rt == RoutePOST(req.path)
         IN  Finished(IF rt = "identity-search"
                      THEN handle_identity_search_proxy(h0, up)
                      ELSE send_error(h0, 404, "Not Found"),
                      rt, up)

\* The connection is shut down and the handler object dropped; an exception
\* that left the handler has been reported by socketserver's handle_error
Finish ==
    /\ pc = "done"
    /\ pc' = "idle"
    /\ req' = NoRequest
    /\ route' = ""
    /\ outcome' = NoOutcome
    /\ buf' = <<>>
    /\ emitted' = <<>>
    /\ wire' = <<>>
    /\ log' = <<>>
    /\ calls' = <<>>
    /\ raised' = ""

Next == Receive \/ do_GET \/ do_POST \/ Finish

Spec == Init /\ [][Next]_vars
(***************************************************************************)
(* Observations used by the properties.                                    *)
(***************************************************************************)
IsProxyRoute == route \in {"avatar", "identity-resolve", "identity-search"}

\* The status codes of the response heads the handler produced, in order
StatusCodes ==
    LET st == SelectSeq(emitted, LAMBDA l : l.k = "status")
    IN  [i \in 1..Len(st) |-> st[i].code]

\* The heads and the bodies that reached the client
WireHeads == SelectSeq(wire, LAMBDA c : c.k = "head")
WireBodies == SelectSeq(wire, LAMBDA c : c.k = "body")

\* The request's decoded query parameters and its headers, as optional values
QueryParam(key) == First(ParamsGet(parse_qsl(UrlQuery(req.path)), key, <<>>))
RequestHeader(name) == HeaderGet(req.headers, name, <<>>)

\* A required input of the route is missing or empty
RequiredInputMissing ==
    \/ /\ route \in {"avatar", "identity-resolve"}
       /\ \/ ~Truthy(QueryParam("id"))
          \/ ~Truthy(QueryParam("org"))
          \/ ~Truthy(RequestHeader("X-ADO-PAT"))
    \/ /\ route = "identity-search"
       /\ \/ ~Truthy(RequestHeader("X-ADO-PAT"))
          \/ ~Truthy(RequestHeader("X-ADO-Org"))

\* C1: on the three proxy routes a request with a required input missing or
\* empty is answered with status 400 (the only head produced, and the head
\* the client receives if it is still connected) and no upstream call is made.
C1_MissingInputRejected ==
    (pc = "done" /\ RequiredInputMissing) =>
        /\ calls = <<>>
        /\ StatusCodes = <<400>>
        /\ \A i \in 1..Len(WireHeads) : WireHeads[i].lines[1].code = 400

C1_Witness ==
    /\ pc = "done"
    /\ route = "identity-search"
    /\ Truthy(RequestHeader("X-ADO-PAT"))
    /\ RequestHeader("X-ADO-Org") = <<"">>
    /\ StatusCodes = <<400>>
    /\ Len(wire) = 2
    /\ calls = <<>>

\* The status the claim assigns to an upstream outcome
ClaimedStatus(up) ==
    CASE up.kind = "ok" /\ up.readOK -> 200
      [] up.kind = "http_error" -> up.code
      [] up.kind = "url_error" -> 502
      [] OTHER -> 500

\* C2: on the three proxy routes, once the upstream call has been made, the
\* response's status is fixed by the call's outcome: 200 on success, the
\* upstream's code on an HTTP error, 502 when unreachable, 500 otherwise.
C2_StatusFixedByOutcome ==
    (pc = "done" /\ IsProxyRoute /\ calls # <<>>) =>
        /\ StatusCodes # <<>>
        /\ StatusCodes[1] = ClaimedStatus(outcome)

\* C3: on a proxy route every failure is handled inside the handler: no
\* exception leaves it and a response head has been completed and sent.
C3_NoFailureEscapes ==
    (pc = "done" /\ IsProxyRoute) =>
        /\ raised = ""
        /\ StatusCodes # <<>>
        /\ buf = <<>>

\* C9: a client request triggers at most one upstream call, whatever the
\* call's outcome, and none at all on the static and not-found routes.
C9_AtMostOneUpstreamCall ==
    pc = "done" =>
        /\ Len(calls) <= 1
        /\ (route \in {"static", "not-found"} => calls = <<>>)

C9_Witness ==
    /\ pc = "done"
    /\ route = "avatar"
    /\ outcome.kind = "url_error"
    /\ Len(calls) = 1
    /\ StatusCodes = <<502>>

\* C10: a proxy route's handler produces at most one response head per
\* request; nothing after the 200 head starts a second one.
C10_AtMostOneHead ==
    (pc = "done" /\ IsProxyRoute) => Len(StatusCodes) <= 1
\* The route the claim assigns to a method and a path
ClaimedRoute ==
    IF req.command = "GET"
    THEN IF StartsWith(req.path, "/avatar?") THEN "avatar"
         ELSE IF StartsWith(req.path, "/identity-resolve?") THEN "identity-resolve"
         ELSE "static"
    ELSE IF StartsWith(req.path, "/identity-search") THEN "identity-search"
         ELSE "not-found"

\* The upstream endpoint each route calls, and no call off the proxy routes
RouteActsAsClaimed ==
    /\ route = ClaimedRoute
    /\ route \in {"static", "not-found"} => calls = <<>>
    /\ \A i \in 1..Len(calls) :
          /\ route = "avatar" => Contains(calls[i].url, "/_api/_common/identityImage?id=")
          /\ route = "identity-resolve" => Contains(calls[i].url, "/_apis/identities/")
          /\ route = "identity-search" =>
                Contains(calls[i].url, "/_apis/IdentityPicker/Identities?")

\* C4 as stated: dispatch by method and path prefix, and every other POST is
\* answered with exactly 404 and the body 'Not Found', with no upstream call.
C4_DispatchAndNotFoundBody ==
    pc = "done" =>
        /\ RouteActsAsClaimed
        /\ route = "not-found" =>
              /\ StatusCodes = <<404>>
              /\ \A i \in 1..Len(WireBodies) : WireBodies[i].data = "Not Found"

\* C4 amended: dispatch by method and path prefix, and every other POST is
\* answered with exactly 404 with the reason phrase 'Not Found' and, as its
\* body, send_error's HTML error page carrying the message 'Not Found'; no
\* upstream call.
C4_DispatchAndNotFoundPage ==
    pc = "done" =>
        /\ RouteActsAsClaimed
        /\ route = "not-found" =>
              /\ StatusCodes = <<404>>
              /\ emitted[1].value = "Not Found"
              /\ \A i \in 1..Len(WireBodies) :
                    /\ StartsWith(WireBodies[i].data, "<html>")
                    /\ Contains(WireBodies[i].data, "<p>Error code: 404</p>")
                    /\ Contains(WireBodies[i].data, "<p>Message: Not Found.</p>")

C4_Witness ==
    /\ pc = "done"
    /\ req.command = "POST"
    /\ req.path = "/avatar?id=7&org=contoso"
    /\ route = "not-found"
    /\ StatusCodes = <<404>>
    /\ Len(WireBodies) = 1
    /\ calls = <<>>

\* s with every trailing "/" removed: the prefix of s that does not end in
\* "/" and is followed by nothing but "/"
TrailingSlashesRemoved(s) ==
    CHOOSE t \in {SubSeq(s, 1, k) : k \in 0..Len(s)} :
        /\ t = "" \/ Char(t, Len(t)) # "/"
        /\ \A j \in (Len(t) + 1)..Len(s) : Char(s, j) = "/"

\* The upstream URL the identity-resolve rule prescribes for this request
ClaimedResolveUrl ==
    LET given == QueryParam("serverUrl")
        server == TrailingSlashesRemoved(
                      IF given = <<>> THEN "https://dev.azure.com" ELSE given[1])
        base == IF Contains(server, "dev.azure.com")
                THEN "https://vssps.dev.azure.com/" \o QueryParam("org")[1]
                ELSE server \o "/" \o QueryParam("org")[1]
    IN  base \o "/_apis/identities/" \o Quote(QueryParam("id")[1]) \o "?api-version=6.0"

\* C5: identity-resolve routing rule: the trailing slash of serverUrl is
\* stripped, a stripped value containing 'dev.azure.com' (or an absent
\* serverUrl) gives the base https://vssps.dev.azure.com/{org}, any other
\* gives {serverUrl}/{org}, and the upstream URL is
\* {base}/_apis/identities/{id percent-encoded, nothing safe}?api-version=6.0.
C5_ResolveRoutingRule ==
    (pc = "done" /\ route = "identity-resolve" /\ ~RequiredInputMissing) =>
        /\ Len(calls) = 1
        /\ calls[1].url = ClaimedResolveUrl
        /\ QueryParam("serverUrl") = <<>> =>
              StartsWith(calls[1].url, "https://vssps.dev.azure.com/contoso/_apis/")
        /\ (/\ QueryParam("serverUrl") = <<"https://tfs.example.com/tfs//">>
            /\ QueryParam("id") = <<"a/b c">>) =>
              calls[1].url =
                "https://tfs.example.com/tfs/contoso/_apis/identities/a%2Fb%20c?api-version=6.0"

C5_Witness ==
    /\ pc = "done"
    /\ route = "identity-resolve"
    /\ QueryParam("serverUrl") = <<"https://tfs.example.com/tfs//">>
    /\ QueryParam("id") = <<"a/b c">>
    /\ Len(calls) = 1
    /\ outcome.kind = "ok"

NoCacheLine == HeaderLine("Cache-Control", "no-store, no-cache, must-revalidate")
ExpiresLine == HeaderLine("Expires", "0")
MaxAgeLine == HeaderLine("Cache-Control", "max-age=604800")

\* The index of the status line of the head that line i of lines belongs to
HeadStart(lines, i) ==
    CHOOSE j \in 1..i : lines[j].k = "status" /\ \A m \in (j + 1)..i : lines[m].k # "status"

\* Every head in lines is closed, by the two no-cache headers and the end
\* of the header block, and max-age is only on the avatar route's 200 head,
\* before the no-cache header
CachePolicy(lines) ==
    /\ lines # <<>> => lines[1].k = "status" /\ lines[Len(lines)].k = "end"
    /\ \A i \in 1..Len(lines) :
          /\ lines[i].k = "end" =>
                /\ i >= 4
                /\ lines[i - 1] = ExpiresLine
                /\ lines[i - 2] = NoCacheLine
                /\ i < Len(lines) => lines[i + 1].k = "status"
          /\ lines[i].k = "status" =>
                \E e \in (i + 1)..Len(lines) :
                    /\ lines[e].k = "end"
                    /\ \A m \in (i + 1)..e : lines[m].k # "status"
          /\ lines[i] = MaxAgeLine =>
                /\ route = "avatar"
                /\ lines[HeadStart(lines, i)].code = 200
                /\ lines[i + 1] = NoCacheLine

\* C6: every response carries Cache-Control: no-store, no-cache,
\* must-revalidate and Expires: 0 as its last headers; the avatar route's 200
\* response also carries Cache-Control: max-age=604800, before them, and no
\* other response carries max-age.
C6_NoCacheOnEveryResponse ==
    pc = "done" =>
        /\ CachePolicy(emitted)
        /\ \A i \in 1..Len(WireHeads) : CachePolicy(WireHeads[i].lines)
        /\ (route = "avatar" /\ StatusCodes # <<>> /\ StatusCodes[1] = 200) =>
              \E i \in 1..Len(emitted) :
                  emitted[i] = MaxAgeLine /\ HeadStart(emitted, i) = 1

C6_Witness ==
    /\ pc = "done"
    /\ route = "avatar"
    /\ StatusCodes = <<200>>
    /\ Len(wire) = 2
    /\ \E i \in 1..Len(wire[1].lines) :
          wire[1].lines[i] = MaxAgeLine /\ wire[1].lines[i + 1] = NoCacheLine
\* The credential of the request being handled ("" when it sent none)
RequestPat == HeaderGet(req.headers, "X-ADO-PAT", <<"">>)[1]

\* text holds the credential, as sent or in its Basic-authentication encoding
Leaks(text, pat) ==
    pat # "" /\ (Contains(text, pat) \/ Contains(text, b64encode(":" \o pat)))

\* The credential shows in the server log, or in a header or body of a
\* response the handler produced or the client received
CredentialExposed ==
    \/ \E i \in 1..Len(log) : Leaks(log[i], RequestPat)
    \/ \E i \in 1..Len(emitted) : Leaks(emitted[i].value, RequestPat)
    \/ \E i \in 1..Len(wire) :
          \/ Leaks(wire[i].data, RequestPat)
          \/ \E j \in 1..Len(wire[i].lines) : Leaks(wire[i].lines[j].value, RequestPat)

\* The upstream's own reply to this request's call carried the credential
UpstreamReturnedCredential ==
    /\ calls # <<>>
    /\ \/ Leaks(ReplyBody(outcome, calls[1]), RequestPat)
       \/ Leaks(outcome.reason, RequestPat)
       \/ \E i \in 1..Len(outcome.ctype) : Leaks(outcome.ctype[i], RequestPat)

\* The credential's only place in an upstream call is its Authorization
\* header, as 'Basic ' and the base64 of ':' and the credential
OnlyInAuthorization ==
    \A i \in 1..Len(calls) :
        /\ calls[i].headers[1] = <<"Authorization", "Basic " \o b64encode(":" \o RequestPat)>>
        /\ RequestPat = "abc" => calls[i].headers[1][2] = "Basic OmFiYw=="
        /\ ~Leaks(calls[i].url, RequestPat)
        /\ \A j \in 1..Len(calls[i].data) : ~Leaks(calls[i].data[j], RequestPat)
        /\ \A j \in 2..Len(calls[i].headers) : ~Leaks(calls[i].headers[j][2], RequestPat)

\* C7 as stated: the credential never shows in the log or in any header or
\* body of a response, on success or on any error path.
C7_CredentialNeverExposed ==
    pc = "done" => ~CredentialExposed

\* C7 amended: the handler puts the credential only into the Authorization
\* header of that request's own upstream call and keeps nothing once the
\* request is over; the log and the response hold the credential only when
\* the upstream's own reply (the body relayed on success, the error body the
\* search route appends) held it.
C7_CredentialOnlyViaUpstreamReply ==
    /\ pc = "done" =>
          /\ OnlyInAuthorization
          /\ CredentialExposed => UpstreamReturnedCredential
    /\ pc = "idle" =>
          /\ req = NoRequest /\ outcome = NoOutcome
          /\ buf = <<>> /\ emitted = <<>> /\ wire = <<>> /\ log = <<>> /\ calls = <<>>

C7_Witness ==
    /\ pc = "done"
    /\ route = "identity-search"
    /\ RequestPat = "abc"
    /\ outcome.kind = "http_error"
    /\ outcome.code = 404
    /\ StatusCodes = <<404>>
    /\ Len(wire) = 2
    /\ ~CredentialExposed

\* The request's Content-Length names a length the body sent can supply
WellFormedLength ==
    /\ RequestHeader("Content-Length") \in {<<"0">>, <<"5">>, <<"15">>}
    /\ Len(req.rfile) = 15

\* The number a well-formed Content-Length header states
StatedLength ==
    CASE RequestHeader("Content-Length") = <<"0">> -> 0
      [] RequestHeader("Content-Length") = <<"5">> -> 5
      [] OTHER -> 15

\* C8: on the identity-search route the upstream POST carries exactly the
\* Content-Length bytes of the caller's body, and a successful upstream
\* body reaches the caller unmodified, with its byte length as
\* Content-Length.
C8_BodiesForwardedVerbatim ==
    (pc = "done" /\ route = "identity-search" /\ ~RequiredInputMissing /\ WellFormedLength) =>
        /\ Len(calls) = 1
        /\ calls[1].method = "POST"
        /\ calls[1].data = <<SubSeq(req.rfile, 1, StatedLength)>>
        /\ (outcome.kind = "ok" /\ outcome.readOK) =>
              /\ \A i \in 1..Len(WireBodies) :
                    WireBodies[i].data = ReplyBody(outcome, calls[1])
              /\ \A i \in 1..Len(WireHeads) :
                    \E j \in 1..Len(WireHeads[i].lines) :
                        WireHeads[i].lines[j] =
                            HeaderLine("Content-Length",
                                       ToString(Len(ReplyBody(outcome, calls[1]))))
              /\ Len(emitted) > 0 /\ emitted[1].code = 200

C8_Witness ==
    /\ pc = "done"
    /\ route = "identity-search"
    /\ RequestHeader("Content-Length") = <<"5">>
    /\ Len(calls) = 1
    /\ calls[1].data = <<"{\"que">>
    /\ outcome.kind = "ok"
    /\ Len(wire) = 2
    /\ wire[2].data = "{\"value\":[]}"
====
